---- MODULE Spec2Model ----
(***************************************************************************)
(* Model of ignition/service/requestqueue.py: the Kafka request queue      *)
(* handlers (poll -> validate -> delegate -> commit or dead-letter, with   *)
(* fail-fast termination), the consumer they drive, and the request queue  *)
(* service (construction and the two enqueue operations).                  *)
(***************************************************************************)
EXTENDS Integers, Sequences, FiniteSets, TLC

VARIABLES variant, log, position, committed, terminated, handled,
          dead_lettered, uuids, restarts, last, service, queues

vars == <<variant, log, position, committed, terminated, handled,
          dead_lettered, uuids, restarts, last, service, queues>>

(***************************************************************************)
(* Bounds                                                                  *)
(***************************************************************************)
NumPartitions == 2

MaxMsgs == 2

MaxRestarts == 1

(* messages the enqueue operations publish in a run *)
MaxQueued == 2

(* handlers the service is asked for in a run *)
MaxHandlers == 4

(* max_records argument of the poll call *)
MaxRecordsUnbounded == MaxMsgs

MaxRecords == 1

Partitions == 0 .. (NumPartitions - 1)

(***************************************************************************)
(* Values                                                                  *)
(***************************************************************************)
(* Python None as a JSON value *)
Null == "<null>"

(* post() called without a key argument *)
NoKey == "<nokey>"

(* a message value that is not well-formed JSON *)
Malformed == [malformed |-> TRUE]

Variants == {"infrastructure", "lifecycle"}

topic_name(v) == IF v = "infrastructure" THEN "infrastructure_requests" ELSE "lifecycle_requests"

failed_topic_name(v) == IF v = "infrastructure" THEN "infrastructure_failed" ELSE "lifecycle_failed"

(* JsonContent(request).get(): the request mapping serialized as one JSON object *)
JsonContent_get(request) == [json |-> request]

(* JsonContent.read(value).dict_val: defined on well-formed values only *)
JsonContent_read(value) == value.json

PropValueMap(x) == "PropValueMap(" \o x \o ")"

(* script_file_manager.build_tree(file_name, scripts): the path of the tree *)
build_tree(file_name, scripts) == <<"tree", file_name>>

(* d[k] = v on a dict *)
Put(request, k, v) == [x \in (DOMAIN request) \cup {k} |-> IF x = k THEN v ELSE request[x]]

(* request.get(k, None) *)
Get(request, k) == IF k \in DOMAIN request THEN request[k] ELSE Null

(* 'k' not in request or request['k'] is None *)
MissingNoneCheckOmitted(request, k) == k \notin DOMAIN request

Missing(request, k) == k \notin DOMAIN request \/ request[k] = Null

(***************************************************************************)
(* Required fields, in the order the handlers check them                   *)
(***************************************************************************)
InfrastructureFieldsLifecycleOrder ==
    <<"request_id", "template", "template_type", "system_properties", "properties", "deployment_location">>

InfrastructureFields ==
    <<"request_id", "template", "template_type", "properties", "system_properties", "deployment_location">>

LifecycleFields ==
    <<"request_id", "lifecycle_name", "lifecycle_scripts", "system_properties", "properties", "deployment_location">>

RequiredFields(v) == IF v = "infrastructure" THEN InfrastructureFields ELSE LifecycleFields

(* index of the first field of fields that the request is missing, 0 if none *)
RECURSIVE FirstMissingFrom(_, _, _)
FirstMissingFrom(request, fields, i) ==
    IF i > Len(fields) THEN 0
    ELSE IF Missing(request, fields[i]) THEN i
    ELSE FirstMissingFrom(request, fields, i + 1)

FirstMissing(request, fields) == FirstMissingFrom(request, fields, 1)

(***************************************************************************)
(* KafkaRequestQueueHandler.handle_failed_request                          *)
(***************************************************************************)
handle_failed_request_unkeyed(v, request) ==
    <<[topic |-> failed_topic_name(v), body |-> JsonContent_get(request), key |-> NoKey]>>

handle_failed_request(v, request) ==
    LET request_id == Get(request, "request_id")
    IN  IF request_id # Null
        THEN <<[topic |-> failed_topic_name(v), body |-> JsonContent_get(request), key |-> request_id]>>
        ELSE <<[topic |-> failed_topic_name(v), body |-> JsonContent_get(request), key |-> NoKey]>>

(***************************************************************************)
(* KafkaInfrastructureRequestQueueHandler.handle_request                   *)
(* d is what the delegate does when called: "true", "false" or "raise".    *)
(***************************************************************************)
infrastructure_handle_request(v, request, d) ==
    LET i == FirstMissing(request, InfrastructureFields)
    IN  IF i > 0
        THEN [ret |-> "False", posts |-> handle_failed_request(v, request),
              delegate_calls |-> 0, delegate_ret |-> "none", build_calls |-> <<>>,
              request |-> request, warning |-> InfrastructureFields[i]]
        ELSE LET r1 == Put(request, "properties", PropValueMap(request["properties"]))
                 r2 == Put(r1, "system_properties", PropValueMap(request["system_properties"]))
             IN  [ret |-> IF d = "true" THEN "True" ELSE IF d = "false" THEN "False" ELSE "raise",
                  posts |-> <<>>, delegate_calls |-> 1, delegate_ret |-> d, build_calls |-> <<>>,
                  request |-> r2, warning |-> "none"]

(***************************************************************************)
(* KafkaLifecycleRequestQueueHandler.handle_request                        *)
(* bt is what build_tree does when called: "ok" or "raise"; file_name is   *)
(* the uuid4 drawn for this request.                                       *)
(***************************************************************************)
lifecycle_handle_request_build_first(v, request, d, bt, file_name) ==
    LET i == FirstMissing(request, LifecycleFields)
        r0 == Put(request, "lifecycle_path", build_tree(file_name, Get(request, "lifecycle_scripts")))
    IN  IF bt = "raise"
        THEN [ret |-> "raise", posts |-> <<>>, delegate_calls |-> 0, delegate_ret |-> "none",
              build_calls |-> <<file_name>>, request |-> request, warning |-> "none"]
        ELSE IF i > 0
        THEN [ret |-> "False", posts |-> handle_failed_request(v, r0),
              delegate_calls |-> 0, delegate_ret |-> "none", build_calls |-> <<file_name>>,
              request |-> r0, warning |-> LifecycleFields[i]]
        ELSE LET r1 == Put(r0, "properties", PropValueMap(request["properties"]))
                 r2 == Put(r1, "system_properties", PropValueMap(request["system_properties"]))
             IN  [ret |-> IF d = "true" THEN "True" ELSE IF d = "false" THEN "False" ELSE "raise",
                  posts |-> <<>>, delegate_calls |-> 1, delegate_ret |-> d,
                  build_calls |-> <<file_name>>, request |-> r2, warning |-> "none"]

lifecycle_handle_request(v, request, d, bt, file_name) ==
    LET i == FirstMissing(request, LifecycleFields)
    IN  IF i > 0
        THEN [ret |-> "False", posts |-> handle_failed_request(v, request),
              delegate_calls |-> 0, delegate_ret |-> "none", build_calls |-> <<>>,
              request |-> request, warning |-> LifecycleFields[i]]
        ELSE IF bt = "raise"
        THEN [ret |-> "raise", posts |-> <<>>, delegate_calls |-> 0, delegate_ret |-> "none",
              build_calls |-> <<file_name>>, request |-> request, warning |-> "none"]
        ELSE LET r0 == Put(request, "lifecycle_path", build_tree(file_name, request["lifecycle_scripts"]))
                 r1 == Put(r0, "properties", PropValueMap(request["properties"]))
                 r2 == Put(r1, "system_properties", PropValueMap(request["system_properties"]))
             IN  [ret |-> IF d = "true" THEN "True" ELSE IF d = "false" THEN "False" ELSE "raise",
                  posts |-> <<>>, delegate_calls |-> 1, delegate_ret |-> d,
                  build_calls |-> <<file_name>>, request |-> r2, warning |-> "none"]

(* the handle_request hook of the handler variant v *)
handle_request(v, request, d, bt, file_name) ==
    IF v = "infrastructure"
    THEN infrastructure_handle_request(v, request, d)
    ELSE lifecycle_handle_request(v, request, d, bt, file_name)

(***************************************************************************)
(* KafkaRequestQueueHandler.process_request                                *)
(***************************************************************************)
(* the branch on the hook's result: commit on true, dead-letter on false;  *)
(* h is the hook's outcome                                                 *)
commit_or_dead_letter_no_commit(v, h) ==
    [ret |-> h.ret,
     commits |-> 0,
     posts |-> IF h.ret = "False" THEN h.posts \o handle_failed_request(v, h.request) ELSE h.posts,
     hook_calls |-> 1, hook_ret |-> h.ret, delegate_calls |-> h.delegate_calls, delegate_ret |-> h.delegate_ret,
     build_calls |-> h.build_calls, request |-> h.request, warning |-> h.warning]

commit_or_dead_letter_commit_on_failure(v, h) ==
    [ret |-> h.ret,
     commits |-> IF h.ret = "raise" THEN 0 ELSE 1,
     posts |-> IF h.ret = "False" THEN h.posts \o handle_failed_request(v, h.request) ELSE h.posts,
     hook_calls |-> 1, hook_ret |-> h.ret, delegate_calls |-> h.delegate_calls, delegate_ret |-> h.delegate_ret,
     build_calls |-> h.build_calls, request |-> h.request, warning |-> h.warning]

commit_or_dead_letter_drop_failed(v, h) ==
    [ret |-> h.ret,
     commits |-> IF h.ret = "True" THEN 1 ELSE 0,
     posts |-> h.posts,
     hook_calls |-> 1, hook_ret |-> h.ret, delegate_calls |-> h.delegate_calls, delegate_ret |-> h.delegate_ret,
     build_calls |-> h.build_calls, request |-> h.request, warning |-> h.warning]

commit_or_dead_letter_failure_fatal(v, h) ==
    IF h.ret = "True"
    THEN [ret |-> "True", commits |-> 1, posts |-> h.posts,
          hook_calls |-> 1, hook_ret |-> h.ret, delegate_calls |-> h.delegate_calls, delegate_ret |-> h.delegate_ret,
          build_calls |-> h.build_calls, request |-> h.request, warning |-> h.warning]
    ELSE [ret |-> "raise", commits |-> 0, posts |-> h.posts \o handle_failed_request(v, h.request),
          hook_calls |-> 1, hook_ret |-> h.ret, delegate_calls |-> h.delegate_calls, delegate_ret |-> h.delegate_ret,
          build_calls |-> h.build_calls, request |-> h.request, warning |-> h.warning]

commit_or_dead_letter(v, h) ==
    IF h.ret = "raise"
    THEN [ret |-> "raise", commits |-> 0, posts |-> h.posts,
          hook_calls |-> 1, hook_ret |-> h.ret, delegate_calls |-> h.delegate_calls, delegate_ret |-> h.delegate_ret,
          build_calls |-> h.build_calls, request |-> h.request, warning |-> h.warning]
    ELSE IF h.ret = "True"
    THEN [ret |-> "True", commits |-> 1, posts |-> h.posts,
          hook_calls |-> 1, hook_ret |-> h.ret, delegate_calls |-> h.delegate_calls, delegate_ret |-> h.delegate_ret,
          build_calls |-> h.build_calls, request |-> h.request, warning |-> h.warning]
    ELSE [ret |-> "False", commits |-> 0, posts |-> h.posts \o handle_failed_request(v, h.request),
          hook_calls |-> 1, hook_ret |-> h.ret, delegate_calls |-> h.delegate_calls, delegate_ret |-> h.delegate_ret,
          build_calls |-> h.build_calls, request |-> h.request, warning |-> h.warning]

(* 'request_id' not in request or request['request_id'] is None, as the loop *)
(* body tests it before the hook is called                                  *)
missing_request_id_absent_only(request) == "request_id" \notin DOMAIN request

missing_request_id(request) == Missing(request, "request_id")

(* the body of the loop for the first message of a non-empty entry *)
process_message(v, partition, message, d, bt, file_name) ==
    IF message.value = Malformed
    THEN [ret |-> "raise", commits |-> 0, posts |-> <<>>, hook_calls |-> 0, hook_ret |-> "none", delegate_calls |-> 0,
          delegate_ret |-> "none", build_calls |-> <<>>, request |-> <<>>, warning |-> "none"]
    ELSE LET request == JsonContent_read(message.value)
         IN  IF missing_request_id(request)
             THEN [ret |-> "False", commits |-> 0, posts |-> handle_failed_request(v, request),
                   hook_calls |-> 0, hook_ret |-> "none", delegate_calls |-> 0, delegate_ret |-> "none",
                   build_calls |-> <<>>, request |-> request, warning |-> "request_id"]
             ELSE LET r1 == Put(request, "partition", partition)
                      r2 == Put(r1, "offset", message.offset)
                  IN  commit_or_dead_letter(v, handle_request(v, r2, d, bt, file_name))

(* index of the first entry of the poll result that has a message, 0 if none *)
RECURSIVE FirstNonEmptyFrom(_, _)
FirstNonEmptyFrom(pr, i) ==
    IF i > Len(pr) THEN 0
    ELSE IF Len(pr[i].messages) > 0 THEN i
    ELSE FirstNonEmptyFrom(pr, i + 1)

FirstNonEmpty(pr) == FirstNonEmptyFrom(pr, 1)

(* the loop over the poll result; falls off the end when no entry has a message *)
process_entries(v, pr, d, bt, file_name) ==
    LET i == FirstNonEmpty(pr)
    IN  IF i = 0
        THEN [ret |-> "None", commits |-> 0, posts |-> <<>>, hook_calls |-> 0, hook_ret |-> "none", delegate_calls |-> 0,
              delegate_ret |-> "none", build_calls |-> <<>>, request |-> <<>>, warning |-> "none"]
        ELSE process_message(v, pr[i].tp, pr[i].messages[1], d, bt, file_name)

(* except Exception: log and sys.exit(1) *)
fail_fast_swallow(e) ==
    IF e.ret = "raise" THEN [exit_code |-> 0, ret |-> "False"] ELSE [exit_code |-> 0, ret |-> e.ret]

fail_fast(e) ==
    IF e.ret = "raise" THEN [exit_code |-> 1, ret |-> "exit"] ELSE [exit_code |-> 0, ret |-> e.ret]

(***************************************************************************)
(* Transport calls that raise. e is what the call does when poll and       *)
(* commit return; f names the call that raises instead: "none", "poll" or  *)
(* "commit" (reached when the hook returned true). The exception           *)
(* propagates to the except clause of process_request.                     *)
(***************************************************************************)
Reaches(e, f) ==
    \/ f \in {"none", "poll"}
    \/ f = "commit" /\ e.commits > 0

transport_fault(e, f) ==
    IF f = "none" THEN e
    ELSE IF f = "commit" THEN [e EXCEPT !.ret = "raise"]
    ELSE [ret |-> "raise", commits |-> 0, posts |-> <<>>, hook_calls |-> 0, hook_ret |-> "none",
          delegate_calls |-> 0, delegate_ret |-> "none", build_calls |-> <<>>, request |-> <<>>,
          warning |-> "none"]

(***************************************************************************)
(* KafkaConsumer.poll(timeout_ms=200, max_records=1)                       *)
(***************************************************************************)
RECURSIVE SumUpTo(_, _)
SumUpTo(t, n) == IF n < 0 THEN 0 ELSE t[n] + SumUpTo(t, n - 1)

(* the number of records over all partitions *)
Total(t) == SumUpTo(t, NumPartitions - 1)

(* how many records a poll may take from each partition: what is available *)
(* past the consumer's position, at most MaxRecords in total, possibly none *)
Takes(lg, pos) ==
    {t \in [Partitions -> 0 .. MaxRecords] :
        /\ Total(t) <= MaxRecords
        /\ \A p \in Partitions : t[p] <= Len(lg[p]) - pos[p]}

(* the partitions a poll result has an entry for: those it took records    *)
(* from, or every assigned partition, with an empty list where it took none *)
Listed(t) == {{p \in Partitions : t[p] > 0}, Partitions}

RECURSIVE Ascending(_)
Ascending(S) ==
    IF S = {} THEN <<>>
    ELSE LET m == CHOOSE x \in S : \A y \in S : x <= y
         IN  <<m>> \o Ascending(S \ {m})

Rotate(s, k) == [i \in 1 .. Len(s) |-> s[((i + k - 1) % Len(s)) + 1]]

(* the orders in which the mapping returned by poll may list the partitions *)
(* S: any of them can come first                                            *)
Orders(S) ==
    IF S = {} THEN {<<>>}
    ELSE {Rotate(Ascending(S), k) : k \in 0 .. (Cardinality(S) - 1)}

(* the records of partition p returned by a poll that takes n of them *)
Records(lg, pos, p, n) ==
    [i \in 1 .. n |-> [offset |-> pos[p] + i - 1, value |-> lg[p][pos[p] + i]]]

(* the poll result: one entry per listed partition, in order o *)
PollResult(lg, pos, t, o) ==
    [i \in 1 .. Len(o) |-> [tp |-> o[i], messages |-> Records(lg, pos, o[i], t[o[i]])]]

(* the consumer's position after the poll *)
Advance(pos, t) == [p \in Partitions |-> pos[p] + t[p]]

(***************************************************************************)
(* KafkaConsumer.commit(): commits the consumer's position of every        *)
(* assigned partition                                                      *)
(***************************************************************************)
commit_polled_partition_only(cm, pos, p) == [q \in Partitions |-> IF q = p THEN pos[q] ELSE cm[q]]

commit(cm, pos, p) == pos

(***************************************************************************)
(* Requests                                                                *)
(***************************************************************************)
FieldSet(v) == {RequiredFields(v)[i] : i \in 1 .. Len(RequiredFields(v))}

(* the request with every required field of variant v present *)
ValidRequest(v) == [k \in FieldSet(v) |-> IF k = "request_id" THEN "r1" ELSE "v"]

Without(request, k) == [x \in (DOMAIN request) \ {k} |-> request[x]]

(* every request over the required fields of v: each field absent, null or *)
(* present, request_id also the empty string                               *)
AllRequests(v) ==
    LET Status(k) == IF k = "request_id" THEN {"absent", Null, "", "r1"} ELSE {"absent", Null, "v"}
        Choices == {c \in [FieldSet(v) -> {"absent", Null, "", "r1", "v"}] :
                       \A k \in FieldSet(v) : c[k] \in Status(k)}
    IN  {[k \in {x \in FieldSet(v) : c[x] # "absent"} |-> c[k]] : c \in Choices}

(* the message values of the multi-message specification *)
SomeValues(v) ==
    {JsonContent_get(ValidRequest(v)),
     JsonContent_get(Without(ValidRequest(v), "request_id")),
     Malformed}

AllValues(v) == {JsonContent_get(r) : r \in AllRequests(v)} \cup {Malformed}

RECURSIVE OnPartition(_, _)
OnPartition(arrivals, p) ==
    IF arrivals = <<>> THEN <<>>
    ELSE IF Head(arrivals)[1] = p
    THEN <<Head(arrivals)[2]>> \o OnPartition(Tail(arrivals), p)
    ELSE OnPartition(Tail(arrivals), p)

(* the logs of at most n messages with values in V *)
Logs(V, n) ==
    LET Arrivals == UNION {[1 .. k -> Partitions \X V] : k \in 0 .. n}
    IN  {[p \in Partitions |-> OnPartition(a, p)] : a \in Arrivals}

(***************************************************************************)
(* State                                                                   *)
(***************************************************************************)
NoCall ==
    [called |-> FALSE, has_record |-> FALSE, partition |-> 0, offset |-> 0, value |-> Malformed,
     entries |-> 0, ret |-> "None", exit_code |-> 0, commits |-> 0, posts |-> <<>>,
     hook_calls |-> 0, hook_ret |-> "none", delegate_calls |-> 0, delegate_ret |-> "none", build_calls |-> <<>>,
     request |-> <<>>, warning |-> "none", committed_before |-> [p \in Partitions |-> 0]]

(* the service has returned no handler: handlers lists the handlers it has  *)
(* returned, each with the consumer it holds; consumers lists every         *)
(* KafkaConsumer object created so far, open or closed; closed is the set   *)
(* of handlers close() has been called on                                   *)
NoQueues == [handlers |-> <<>>, consumers |-> <<>>, closed |-> {}]

(* no request queue service has been constructed or used *)
NoService ==
    [op |-> "none", arg |-> <<>>, ret |-> "none", constructed |-> FALSE,
     postal_service |-> Null, posts |-> <<>>, posted |-> 0]

InitRest ==
    /\ position = [p \in Partitions |-> 0]
    /\ committed = [p \in Partitions |-> 0]
    /\ terminated = FALSE
    /\ handled = {}
    /\ dead_lettered = {}
    /\ uuids = 0
    /\ restarts = 0
    /\ last = NoCall
    /\ service = NoService
    /\ queues = NoQueues

(* a handler of either variant on a log of up to MaxMsgs messages *)
Init ==
    /\ variant \in Variants
    /\ log \in Logs(SomeValues(variant), MaxMsgs)
    /\ InitRest

(* a handler of either variant on a log of one message of any shape *)
InitFields ==
    /\ variant \in Variants
    /\ \E p \in Partitions, val \in AllValues(variant) :
           log = [q \in Partitions |-> IF q = p THEN <<val>> ELSE <<>>]
    /\ InitRest

(***************************************************************************)
(* One call of process_request() by the worker loop                        *)
(***************************************************************************)
(* what the collaborators do if the call reaches them: the delegate returns *)
(* true or false or raises; build_tree, which only the lifecycle handler    *)
(* calls, returns or raises                                                 *)
Behaviours(v) ==
    {<<"true", "ok">>, <<"false", "ok">>, <<"raise", "ok">>}
        \cup (IF v = "lifecycle" THEN {<<"raise", "raise">>} ELSE {})

(* uuid.uuid4() when n names have been drawn: a name not drawn before *)
uuid4_constant(n) == 1

uuid4(n) == n + 1

(* one call of process_request() in which the collaborators behave as one  *)
(* of B and the transport as one of F                                      *)
Call(B, F) ==
    /\ ~terminated
    /\ \E f \in F :
       \E t \in Takes(log, position) :
         /\ f = "poll" => Total(t) = 0
         /\ position' = Advance(position, t)
         /\ \E S \in Listed(t) :
              /\ f = "poll" => S = {}
              /\ \E o \in Orders(S) :
                 \E pr \in {PollResult(log, position, t, o)} :
                 \E i \in {FirstNonEmpty(pr)} :
                 \E b \in IF i > 0 THEN B ELSE {<<"true", "ok">>} :
                 \E e0 \in {process_entries(variant, pr, b[1], b[2], uuid4(uuids))} :
                   /\ Reaches(e0, f)
                   /\ \E e \in {transport_fault(e0, f)} :
                      \E r \in {fail_fast(e)} :
                      \E p \in {IF i > 0 THEN pr[i].tp ELSE 0} :
                        /\ committed' = IF e.commits > 0 /\ f # "commit"
                                        THEN commit(committed, position', p)
                                        ELSE committed
                        /\ terminated' = (r.ret = "exit")
                        /\ handled' = IF e.delegate_ret = "true"
                                      THEN handled \cup {<<p, pr[i].messages[1].offset>>}
                                      ELSE handled
                        /\ dead_lettered' = IF e.posts # <<>>
                                            THEN dead_lettered \cup {<<p, pr[i].messages[1].offset>>}
                                            ELSE dead_lettered
                        /\ uuids' = uuids + Len(e.build_calls)
                        /\ last' = [called |-> TRUE, has_record |-> i > 0,
                                    partition |-> p,
                                    offset |-> IF i > 0 THEN pr[i].messages[1].offset ELSE 0,
                                    value |-> IF i > 0 THEN pr[i].messages[1].value ELSE Malformed,
                                    entries |-> Len(pr),
                                    ret |-> r.ret, exit_code |-> r.exit_code,
                                    commits |-> e.commits, posts |-> e.posts,
                                    hook_calls |-> e.hook_calls, hook_ret |-> e.hook_ret,
                                    delegate_calls |-> e.delegate_calls,
                                    delegate_ret |-> e.delegate_ret, build_calls |-> e.build_calls,
                                    request |-> e.request, warning |-> e.warning,
                                    committed_before |-> committed]
    /\ UNCHANGED <<variant, log, restarts, service, queues>>

(* a call in which poll, commit and post return *)
ProcessRequest == Call(Behaviours(variant), {"none"})

(***************************************************************************)
(* The supervisor restarts the terminated process: a new handler with a    *)
(* new consumer of the same group, which resumes at the committed offsets  *)
(***************************************************************************)
(* KafkaConsumerFactory.create_consumer: the position of a new consumer of  *)
(* the group on the log lg, given the group's committed offsets cm          *)
create_consumer_at_end(cm, lg) == [p \in Partitions |-> Len(lg[p])]

create_consumer(cm, lg) == cm

Restart ==
    /\ terminated
    /\ restarts < MaxRestarts
    /\ terminated' = FALSE
    /\ position' = create_consumer(committed, log)
    /\ restarts' = restarts + 1
    /\ last' = NoCall
    /\ UNCHANGED <<variant, log, committed, handled, dead_lettered, uuids, service, queues>>

Next == ProcessRequest \/ Restart

Spec == Init /\ [][Next]_vars

SpecFields == InitFields /\ [][Next]_vars

(***************************************************************************)
(* The worker loop over a finite log when the delegate never raises and    *)
(* poll, commit and post never fail. The log may hold values that are not  *)
(* JSON and requests that lack a field, and build_tree may raise. A poll   *)
(* may come back empty, but not for ever while records are waiting.        *)
(***************************************************************************)
LoopValues(v) == {JsonContent_get(ValidRequest(v)), Malformed}

LoopBehaviours(v) ==
    {<<"true", "ok">>, <<"false", "ok">>}
        \cup (IF v = "lifecycle" THEN {<<"true", "raise">>} ELSE {})

InitLoop ==
    /\ variant \in Variants
    /\ log \in Logs(LoopValues(variant), MaxMsgs)
    /\ InitRest

LoopStep == Call(LoopBehaviours(variant), {"none"})

(* a call whose poll delivers a record *)
Delivery ==
    /\ \E t \in Takes(log, position) : Total(t) > 0 /\ position' = Advance(position, t)
    /\ LoopStep

SpecLoop == InitLoop /\ [][LoopStep]_vars /\ WF_vars(Delivery)

(***************************************************************************)
(* KafkaRequestQueueService: the enqueue operations                        *)
(* An argument a is None (a.is_none) or the dict a.dict.                   *)
(***************************************************************************)
QueueRequests ==
    {[k \in {"template"} |-> "v"]}
        \cup {[k \in {"request_id", "template"} |-> IF k = "request_id" THEN id ELSE t] :
                  id \in {Null, "", "r1", "r2"}, t \in {"v", "w"}}

QueueArgs ==
    {[is_none |-> TRUE, dict |-> <<>>]} \cup {[is_none |-> FALSE, dict |-> r] : r \in QueueRequests}

(* the two checks and the post of an enqueue operation on the topic *)
queue_request_id_unchecked(topic, a) ==
    IF a.is_none
    THEN [ret |-> "ValueError", posts |-> <<>>]
    ELSE IF "request_id" \notin DOMAIN a.dict
    THEN [ret |-> "KeyError", posts |-> <<>>]
    ELSE [ret |-> "None",
          posts |-> <<[topic |-> topic, body |-> JsonContent_get(a.dict), key |-> a.dict["request_id"]]>>]

queue_request(topic, a) ==
    IF a.is_none
    THEN [ret |-> "ValueError", posts |-> <<>>]
    ELSE IF "request_id" \notin DOMAIN a.dict \/ a.dict["request_id"] = Null
    THEN [ret |-> "ValueError", posts |-> <<>>]
    ELSE [ret |-> "None",
          posts |-> <<[topic |-> topic, body |-> JsonContent_get(a.dict), key |-> a.dict["request_id"]]>>]

queue_infrastructure_request(a) == queue_request(topic_name("infrastructure"), a)

queue_lifecycle_request_infrastructure_topic(a) == queue_request(topic_name("infrastructure"), a)

queue_lifecycle_request(a) == queue_request(topic_name("lifecycle"), a)

(* the service after the enqueue operation op was called with a and did q: *)
(* a post on a postal service that is None raises AttributeError           *)
Enqueued(op, a, q) ==
    LET posted == q.posts # <<>> /\ service.postal_service # Null
    IN  [service EXCEPT !.op = op, !.arg = a,
                        !.ret = IF q.posts # <<>> /\ ~posted THEN "AttributeError" ELSE q.ret,
                        !.posts = IF posted THEN @ \o q.posts ELSE @,
                        !.posted = IF posted THEN Len(q.posts) ELSE 0]

QueueInfrastructureRequest ==
    /\ service.constructed
    /\ Len(service.posts) < MaxQueued
    /\ \E a \in QueueArgs :
           service' = Enqueued("queue_infrastructure_request", a, queue_infrastructure_request(a))
    /\ UNCHANGED <<variant, log, position, committed, terminated, handled,
                   dead_lettered, uuids, restarts, last, queues>>

QueueLifecycleRequest ==
    /\ service.constructed
    /\ Len(service.posts) < MaxQueued
    /\ \E a \in QueueArgs :
           service' = Enqueued("queue_lifecycle_request", a, queue_lifecycle_request(a))
    /\ UNCHANGED <<variant, log, position, committed, terminated, handled,
                   dead_lettered, uuids, restarts, last, queues>>

(***************************************************************************)
(* Construction of the service and of a consumer factory                   *)
(* kwargs maps the keyword arguments given to their values: None, an       *)
(* object ("ok"), or for the three configurations also an object whose     *)
(* connection address or topic name is empty ("empty"). A factory is given *)
(* a connection address, a topic name and a group id, each None, '' or a   *)
(* non-empty string.                                                       *)
(***************************************************************************)
ConfigKeys == {"messaging_config", "infrastructure_config", "lifecycle_config"}

ServiceKeys ==
    <<"messaging_config", "infrastructure_config", "lifecycle_config", "postal_service",
      "script_file_manager", "infrastructure_consumer_factory", "lifecycle_consumer_factory">>

ServiceKeySet == {ServiceKeys[i] : i \in 1 .. Len(ServiceKeys)}

AllKwargs ==
    UNION {{kw \in [D -> {Null, "empty", "ok"}] : \A k \in D \ ConfigKeys : kw[k] # "empty"} :
               D \in SUBSET ServiceKeySet}

FactoryConfigs ==
    [connection_address : {Null, "", "ok"}, topic_name : {Null, "", "ok"}, group_id : {Null, "", "ok"}]

(* KafkaRequestQueueService.__init__ on the keyword arguments kwargs *)
KafkaRequestQueueService_init(kwargs) ==
    IF \E k \in ServiceKeySet : k \notin DOMAIN kwargs
    THEN [ret |-> "ValueError", constructed |-> FALSE, postal_service |-> Null]
    ELSE IF \E k \in ConfigKeys : kwargs[k] = Null
    THEN [ret |-> "AttributeError", constructed |-> FALSE, postal_service |-> Null]
    ELSE [ret |-> "constructed", constructed |-> TRUE, postal_service |-> kwargs["postal_service"]]

(* KafkaConsumerFactory.__init__(request_queue_config, messaging_config) *)
KafkaConsumerFactory_init(cfg) ==
    IF cfg.connection_address = Null \/ cfg.connection_address = "" THEN "ValueError"
    ELSE IF cfg.topic_name = Null \/ cfg.topic_name = "" THEN "ValueError"
    ELSE IF cfg.group_id = Null \/ cfg.group_id = "" THEN "ValueError"
    ELSE "constructed"

NewService ==
    /\ service.op = "none"
    /\ \E kwargs \in AllKwargs :
       \E c \in {KafkaRequestQueueService_init(kwargs)} :
           service' = [service EXCEPT !.op = "KafkaRequestQueueService", !.arg = kwargs,
                                      !.ret = c.ret, !.constructed = c.constructed,
                                      !.postal_service = c.postal_service]
    /\ UNCHANGED <<variant, log, position, committed, terminated, handled,
                   dead_lettered, uuids, restarts, last, queues>>

NewFactory ==
    /\ service.op = "none"
    /\ \E cfg \in FactoryConfigs :
           service' = [service EXCEPT !.op = "KafkaConsumerFactory", !.arg = cfg,
                                      !.ret = KafkaConsumerFactory_init(cfg)]
    /\ UNCHANGED <<variant, log, position, committed, terminated, handled,
                   dead_lettered, uuids, restarts, last, queues>>

(* the first use of a service just constructed: a request with a request_id *)
(* is enqueued                                                              *)
FirstUse ==
    /\ service.op = "KafkaRequestQueueService"
    /\ service.constructed
    /\ \E a \in {[is_none |-> FALSE, dict |-> [k \in {"request_id", "template"} |->
                                                  IF k = "request_id" THEN "r1" ELSE "v"]]} :
           service' = Enqueued("first use", a, queue_infrastructure_request(a))
    /\ UNCHANGED <<variant, log, position, committed, terminated, handled,
                   dead_lettered, uuids, restarts, last, queues>>

(* no handler runs in the specifications of the service *)
InitNoHandler ==
    /\ variant = "infrastructure"
    /\ log = [p \in Partitions |-> <<>>]
    /\ InitRest

NextConstruct == NewService \/ NewFactory \/ FirstUse

SpecConstruct == InitNoHandler /\ [][NextConstruct]_vars

(* a service constructed with every argument given and in order *)
InitService ==
    /\ variant = "infrastructure"
    /\ log = [p \in Partitions |-> <<>>]
    /\ position = [p \in Partitions |-> 0]
    /\ committed = [p \in Partitions |-> 0]
    /\ terminated = FALSE
    /\ handled = {}
    /\ dead_lettered = {}
    /\ uuids = 0
    /\ restarts = 0
    /\ last = NoCall
    /\ service = [NoService EXCEPT !.op = "KafkaRequestQueueService",
                                   !.arg = [k \in ServiceKeySet |-> "ok"],
                                   !.ret = "constructed", !.constructed = TRUE,
                                   !.postal_service = "ok"]
    /\ queues = NoQueues

NextService == QueueInfrastructureRequest \/ QueueLifecycleRequest

SpecService == InitService /\ [][NextService]_vars

(***************************************************************************)
(* KafkaRequestQueueService.get_infrastructure_request_queue and           *)
(* get_lifecycle_request_queue, and KafkaRequestQueueHandler.close         *)
(***************************************************************************)
(* the object KafkaConsumer(...) evaluates to in create_consumer, when the  *)
(* objects of cs exist: a new one                                           *)
KafkaConsumer_shared(cs) == 1

KafkaConsumer_new(cs) == Len(cs) + 1

(* KafkaRequestQueueHandler.__init__: the handler of the kind holds the    *)
(* consumer its call of create_consumer returns                            *)
get_request_queue(q, kind) ==
    LET c == KafkaConsumer_new(q.consumers)
    IN  [q EXCEPT !.handlers = Append(@, [kind |-> kind, consumer |-> c]),
                  !.consumers = IF c > Len(@) THEN Append(@, "open") ELSE @]

(* KafkaRequestQueueHandler.close on handler h: closes the consumer it holds *)
close(q, h) ==
    [q EXCEPT !.consumers[q.handlers[h].consumer] = "closed",
              !.closed = @ \cup {h}]

GetInfrastructureRequestQueue ==
    /\ service.constructed
    /\ Len(queues.handlers) < MaxHandlers
    /\ queues' = get_request_queue(queues, "infrastructure")
    /\ UNCHANGED <<variant, log, position, committed, terminated, handled,
                   dead_lettered, uuids, restarts, last, service>>

GetLifecycleRequestQueue ==
    /\ service.constructed
    /\ Len(queues.handlers) < MaxHandlers
    /\ queues' = get_request_queue(queues, "lifecycle")
    /\ UNCHANGED <<variant, log, position, committed, terminated, handled,
                   dead_lettered, uuids, restarts, last, service>>

Close ==
    /\ \E h \in 1 .. Len(queues.handlers) : queues' = close(queues, h)
    /\ UNCHANGED <<variant, log, position, committed, terminated, handled,
                   dead_lettered, uuids, restarts, last, service>>

NextHandlers == GetInfrastructureRequestQueue \/ GetLifecycleRequestQueue \/ Close

SpecHandlers == InitService /\ [][NextHandlers]_vars

(* the handler on a transport whose calls may raise *)
(* the delegate returns true or raises; build_tree returns or raises *)
FaultBehaviours(v) ==
    {<<"true", "ok">>, <<"raise", "ok">>}
        \cup (IF v = "lifecycle" THEN {<<"raise", "raise">>} ELSE {})

(* a call in which poll and commit return or one of them raises *)
ProcessRequestFault == Call(FaultBehaviours(variant), {"none", "poll", "commit"})

NextFaults == ProcessRequestFault \/ Restart

(* a handler of either variant on a log of up to MaxMsgs requests that have *)
(* every required field                                                     *)
InitFaults ==
    /\ variant \in Variants
    /\ log \in Logs({JsonContent_get(ValidRequest(variant))}, MaxMsgs)
    /\ InitRest

SpecFaults == InitFaults /\ [][NextFaults]_vars

TypeOK ==
    /\ variant \in Variants
    /\ \A p \in Partitions : committed[p] <= position[p] /\ position[p] <= Len(log[p])
    /\ last.ret \in {"True", "False", "None", "exit"}

(***************************************************************************)
(* Properties                                                              *)
(***************************************************************************)
(* the call recorded in last polled a record with well-formed JSON *)
PolledRequest == last.called /\ last.has_record /\ last.value # Malformed

(* the request as it was read from the polled record *)
OriginalRequest == JsonContent_read(last.value)

Present(request, k) == k \in DOMAIN request /\ request[k] # Null

(* the required fields of the handler's variant that the polled request lacks *)
MissingFields == {k \in FieldSet(variant) : ~Present(OriginalRequest, k)}

(* the envelope is a publish to the dead-letter topic whose body holds every *)
(* field of the polled request unchanged                                     *)
CarriesOriginal(env) ==
    /\ env.topic = failed_topic_name(variant)
    /\ DOMAIN OriginalRequest \subseteq DOMAIN env.body.json
    /\ \A k \in DOMAIN OriginalRequest : env.body.json[k] = OriginalRequest[k]

(* the envelope's body holds the partition and offset of the polled record *)
CarriesPartitionOffset(env) ==
    /\ {"partition", "offset"} \subseteq DOMAIN env.body.json
    /\ env.body.json["partition"] = last.partition
    /\ env.body.json["offset"] = last.offset

(* C1: a polled record whose request has every required field present and  *)
(* non-null and whose delegate returns true makes process_request() return *)
(* True, with exactly one commit and no dead-letter publish in that call.   *)
C1_ValidRequestCommitted ==
    (PolledRequest /\ MissingFields = {} /\ last.delegate_ret = "true")
        => /\ last.ret = "True"
           /\ last.commits = 1
           /\ last.posts = <<>>
           /\ committed[last.partition] = last.offset + 1

C1_Witness ==
    /\ PolledRequest /\ MissingFields = {} /\ last.delegate_ret = "true"
    /\ last.ret = "True" /\ committed[last.partition] = last.offset + 1

(* C2 as stated: a polled request missing exactly one required field makes  *)
(* process_request() return False without a commit and publish a            *)
(* dead-letter message holding the original fields plus partition and       *)
(* offset.                                                                  *)
C2_Original ==
    (PolledRequest /\ Cardinality(MissingFields) = 1)
        => /\ last.ret = "False"
           /\ last.commits = 0
           /\ \E i \in 1 .. Len(last.posts) :
                  CarriesOriginal(last.posts[i]) /\ CarriesPartitionOffset(last.posts[i])

(* C2 amended: as stated when the missing field is not request_id; when it  *)
(* is request_id the dead-letter body is the original request as read,      *)
(* without partition and offset.                                            *)
C2_Amended ==
    (PolledRequest /\ Cardinality(MissingFields) = 1)
        => /\ last.ret = "False"
           /\ last.commits = 0
           /\ committed = last.committed_before
           /\ IF MissingFields = {"request_id"}
              THEN last.posts = <<[topic |-> failed_topic_name(variant),
                                   body |-> JsonContent_get(OriginalRequest), key |-> NoKey]>>
              ELSE /\ Len(last.posts) > 0
                   /\ \A i \in 1 .. Len(last.posts) :
                          CarriesOriginal(last.posts[i]) /\ CarriesPartitionOffset(last.posts[i])

C2_Witness ==
    /\ PolledRequest /\ last.ret = "False"
    /\ \E k \in FieldSet(variant) : k # "request_id" /\ MissingFields = {k}
    /\ \E i \in 1 .. Len(last.posts) : CarriesPartitionOffset(last.posts[i])

(* C3 as stated: once a message has been dead-lettered the committed offset *)
(* of its partition never advances past that message's offset.              *)
C3_Original ==
    \A m \in dead_lettered : committed[m[1]] <= m[2]

(* C3 amended: the process_request() call that dead-letters a message       *)
(* invokes no commit and leaves every committed offset where it was; a      *)
(* later call that handles a later message successfully may commit past it. *)
C3_Amended ==
    (last.called /\ last.posts # <<>>)
        => /\ last.commits = 0
           /\ committed = last.committed_before
           /\ <<last.partition, last.offset>> \in dead_lettered

C3_Witness ==
    /\ last.called /\ last.posts # <<>>
    /\ \E m \in dead_lettered : committed[m[1]] > m[2]

(* C4: every message below the committed offset of its partition has been   *)
(* handled successfully by the delegate or published to the dead-letter     *)
(* topic, also after termination and restart.                               *)
C4_NoMessageSkipped ==
    \A p \in Partitions : \A o \in 0 .. (committed[p] - 1) :
        <<p, o>> \in handled \/ <<p, o>> \in dead_lettered

C4_Witness ==
    /\ restarts > 0
    /\ \E p \in Partitions :
          /\ committed[p] >= 2
          /\ <<p, 0>> \in dead_lettered \ handled

(* C5 as stated: a polled request whose request_id is absent, null or the   *)
(* empty string is dead-lettered, process_request() returns False, the      *)
(* handle_request hook is not invoked and nothing is committed.             *)
C5_Original ==
    (PolledRequest /\ (~Present(OriginalRequest, "request_id") \/ OriginalRequest["request_id"] = ""))
        => /\ last.ret = "False"
           /\ last.posts # <<>>
           /\ last.hook_calls = 0
           /\ last.commits = 0

(* C5 amended: the same for a request_id that is absent or null; an empty   *)
(* string counts as a request_id.                                           *)
C5_Amended ==
    (PolledRequest /\ ~Present(OriginalRequest, "request_id"))
        => /\ last.ret = "False"
           /\ last.posts = <<[topic |-> failed_topic_name(variant),
                               body |-> JsonContent_get(OriginalRequest), key |-> NoKey]>>
           /\ last.hook_calls = 0
           /\ last.commits = 0
           /\ committed = last.committed_before

C5_Witness ==
    /\ PolledRequest /\ "request_id" \in DOMAIN OriginalRequest
    /\ OriginalRequest["request_id"] = Null
    /\ last.ret = "False" /\ Len(last.posts) = 1

(* C6: every dead-letter publish goes to the configured failed topic, keyed *)
(* by the request's request_id when that is non-null and without a key when *)
(* it is absent or null.                                                    *)
C6_DeadLetterKey ==
    \A i \in 1 .. Len(last.posts) :
        /\ last.posts[i].topic = failed_topic_name(variant)
        /\ last.posts[i].key = IF Present(last.posts[i].body.json, "request_id")
                               THEN last.posts[i].body.json["request_id"]
                               ELSE NoKey

C6_Witness ==
    /\ last.called /\ last.delegate_ret = "false"
    /\ \E i \in 1 .. Len(last.posts) :
           last.posts[i].key = "r1" /\ last.posts[i].body.json["request_id"] = "r1"

(* C7: when the delegate raises, process_request() returns no boolean: the  *)
(* process terminates with exit code 1 and nothing is committed.            *)
C7_DelegateRaiseTerminates ==
    (last.called /\ last.delegate_ret = "raise")
        => /\ last.ret = "exit"
           /\ last.exit_code = 1
           /\ terminated
           /\ last.commits = 0
           /\ committed = last.committed_before

C7_Witness ==
    last.called /\ last.delegate_ret = "raise" /\ terminated /\ last.offset >= committed[last.partition]

(* C8 as stated: a call whose poll yields no record returns False and has   *)
(* no side effect: no commit, no publish, no call of the hook.              *)
C8_Original ==
    (last.called /\ ~last.has_record)
        => /\ last.ret = "False"
           /\ last.commits = 0
           /\ last.posts = <<>>
           /\ last.hook_calls = 0
           /\ committed = last.committed_before

(* C9: when the hook returns false for a polled record, process_request()   *)
(* publishes the request to the dead-letter topic keyed by its request_id,  *)
(* commits nothing and returns False.                                       *)
C9_HookFalseDeadLetters ==
    (last.called /\ last.hook_ret = "False")
        => /\ last.ret = "False"
           /\ last.commits = 0
           /\ committed = last.committed_before
           /\ Present(OriginalRequest, "request_id")
           /\ Len(last.posts) > 0
           /\ last.posts[Len(last.posts)] =
                  [topic |-> failed_topic_name(variant), body |-> JsonContent_get(last.request),
                   key |-> OriginalRequest["request_id"]]

C9_Witness ==
    last.called /\ last.hook_ret = "False" /\ last.delegate_ret = "false" /\ Len(last.posts) = 1

(* C10 as stated: the commit of a successful process_request() call         *)
(* advances the committed offset of the polled record's partition only.     *)
C10_Original ==
    (last.called /\ last.ret = "True")
        => \A q \in Partitions \ {last.partition} : committed[q] = last.committed_before[q]

(* C11: when a call ends in fail-fast termination after polling message m   *)
(* (the delegate, build_tree or commit raised), m's offset is not committed  *)
(* at termination, and the consumer of the restarted process resumes at or   *)
(* before m on m's partition of the unchanged log, so that m is delivered    *)
(* again.                                                                    *)
C11_CrashedMessageRedelivered ==
    [][/\ (terminated' /\ last'.has_record) => committed'[last'.partition] <= last'.offset
       /\ (terminated /\ last.has_record /\ ~terminated')
              => /\ position'[last.partition] <= last.offset
                 /\ committed'[last.partition] <= last.offset
                 /\ log' = log]_vars

(* a message the delegate handled whose commit raised is polled again by the *)
(* restarted process                                                         *)
C11_Witness ==
    /\ restarts > 0
    /\ last.called /\ last.has_record
    /\ <<last.partition, last.offset>> \in handled
    /\ last.committed_before[last.partition] <= last.offset
    /\ last.delegate_ret # "true"

(* C15 as stated: a polled lifecycle request whose lifecycle_scripts is      *)
(* absent or null makes process_request() return False, a dead-letter        *)
(* publish carries the request with the record's partition and offset,       *)
(* build_tree is not called and lifecycle_path is set neither on the request *)
(* nor in a published body.                                                  *)
C15_Original ==
    (variant = "lifecycle" /\ PolledRequest /\ ~Present(OriginalRequest, "lifecycle_scripts"))
        => /\ last.ret = "False"
           /\ last.posts # <<>>
           /\ \A i \in 1 .. Len(last.posts) :
                  /\ CarriesOriginal(last.posts[i])
                  /\ CarriesPartitionOffset(last.posts[i])
                  /\ "lifecycle_path" \notin DOMAIN last.posts[i].body.json
           /\ last.build_calls = <<>>
           /\ "lifecycle_path" \notin DOMAIN last.request
           /\ last.delegate_calls = 0 /\ last.commits = 0

(* C15 amended: the same for a lifecycle request that has a request_id; a    *)
(* request that lacks request_id as well is dead-lettered as it was read,    *)
(* without partition and offset.                                             *)
C15_Amended ==
    (/\ variant = "lifecycle" /\ PolledRequest
     /\ Present(OriginalRequest, "request_id")
     /\ ~Present(OriginalRequest, "lifecycle_scripts"))
        => /\ last.ret = "False"
           /\ last.posts # <<>>
           /\ \A i \in 1 .. Len(last.posts) :
                  /\ CarriesOriginal(last.posts[i])
                  /\ CarriesPartitionOffset(last.posts[i])
                  /\ "lifecycle_path" \notin DOMAIN last.posts[i].body.json
           /\ last.build_calls = <<>>
           /\ "lifecycle_path" \notin DOMAIN last.request
           /\ last.delegate_calls = 0 /\ last.commits = 0

C15_Witness ==
    /\ variant = "lifecycle" /\ PolledRequest
    /\ MissingFields = {"lifecycle_scripts"}
    /\ "lifecycle_scripts" \in DOMAIN OriginalRequest
    /\ last.ret = "False" /\ last.hook_calls = 1 /\ last.build_calls = <<>>

(* C16: a polled lifecycle request with every required field makes          *)
(* build_tree be called exactly once, under a name that no earlier call      *)
(* used; the delegate is called at most once and only after build_tree       *)
(* returned (when build_tree raises the delegate is not called), and the     *)
(* request the delegate receives has lifecycle_path equal to the path that   *)
(* build_tree returned for that name and the request's scripts.              *)
C16_ScriptTreeBeforeDelegate ==
    (variant = "lifecycle" /\ PolledRequest /\ MissingFields = {})
        => /\ Len(last.build_calls) = 1
           /\ last.build_calls[1] \notin 1 .. (uuids - 1)
           /\ last.delegate_calls <= 1
           /\ last.delegate_calls = 0 => last.ret = "exit"
           /\ last.delegate_calls = 1
                  => /\ "lifecycle_path" \in DOMAIN last.request
                     /\ last.request["lifecycle_path"]
                            = build_tree(last.build_calls[1], OriginalRequest["lifecycle_scripts"])

(* the second script tree of a run has been built and handed to the delegate *)
C16_Witness ==
    /\ variant = "lifecycle" /\ PolledRequest /\ MissingFields = {}
    /\ uuids >= 2
    /\ last.delegate_calls = 1
    /\ last.request["lifecycle_path"] = build_tree(uuids, OriginalRequest["lifecycle_scripts"])

(* C17: the infrastructure handler checks request_id, template,              *)
(* template_type, properties, system_properties, deployment_location in      *)
(* that order: a polled request missing any of them is refused with the      *)
(* warning of the first one it is missing in that order, dead-lettered and   *)
(* never handed to the delegate; the delegate is called exactly when none    *)
(* is missing.                                                               *)
C17_Order ==
    <<"request_id", "template", "template_type", "properties", "system_properties", "deployment_location">>

C17_MissingAt == {i \in 1 .. Len(C17_Order) : ~Present(OriginalRequest, C17_Order[i])}

C17_InfrastructureCheckOrder ==
    (variant = "infrastructure" /\ PolledRequest)
        => /\ C17_MissingAt # {}
                  => /\ \E i \in C17_MissingAt :
                            /\ \A j \in C17_MissingAt : i <= j
                            /\ last.warning = C17_Order[i]
                     /\ last.ret = "False"
                     /\ last.posts # <<>>
                     /\ last.delegate_calls = 0
           /\ C17_MissingAt = {} => (last.delegate_calls = 1 /\ last.warning = "none")

(* a request missing both properties and system_properties is refused for    *)
(* properties                                                                *)
C17_Witness ==
    /\ variant = "infrastructure" /\ PolledRequest
    /\ {"properties", "system_properties"} \subseteq MissingFields
    /\ last.warning = "properties"
    /\ last.delegate_calls = 0

(* C18: a call of process_request() consumes at most one record from the     *)
(* consumer and calls the handle_request hook, the delegate and commit at    *)
(* most once each, however many partitions the poll result lists.            *)
C18_OneMessagePerCall ==
    [][last'.called
          => /\ Total([p \in Partitions |-> position'[p] - position[p]]) <= 1
             /\ last'.hook_calls <= 1
             /\ last'.delegate_calls <= 1
             /\ last'.commits <= 1]_vars

(* a poll result listing several partitions, one of them with a record that  *)
(* was handled and committed                                                 *)
C18_Witness ==
    /\ last.called /\ last.has_record
    /\ last.entries >= 2
    /\ last.hook_calls = 1 /\ last.commits = 1

(* C19 as stated: a call of process_request() that polled a record publishes *)
(* at most one message to the dead-letter topic.                             *)
C19_Original ==
    PolledRequest => Len(last.posts) <= 1

(* every message of the log has been consumed and has its terminal outcome:  *)
(* handled with its offset committed, or dead-lettered                       *)
C20_Settled ==
    /\ ~terminated
    /\ \A p \in Partitions :
           /\ position[p] = Len(log[p])
           /\ \A o \in 0 .. (Len(log[p]) - 1) :
                  \/ <<p, o>> \in handled /\ committed[p] > o
                  \/ <<p, o>> \in dead_lettered

(* a call that polls nothing calls nothing and changes nothing *)
C20_NoOp ==
    (last.called /\ ~last.has_record)
        => /\ last.commits = 0 /\ last.posts = <<>> /\ last.hook_calls = 0
           /\ committed = last.committed_before
           /\ ~terminated

(* the loop on a finite log: the process is never terminated, every message  *)
(* eventually has its terminal outcome for good, with nothing left to poll,  *)
(* and a call that polls nothing is a no-op                                  *)
C20_Loop ==
    /\ [](~terminated)
    /\ <>[]C20_Settled
    /\ []C20_NoOp

C20_NotJson == last.called /\ last.has_record /\ last.value = Malformed

(* the last call called build_tree and build_tree raised *)
C20_BuildTreeRaised ==
    last.called /\ last.build_calls # <<>> /\ last.delegate_calls = 0

Enqueue == service.op \in {"queue_infrastructure_request", "queue_lifecycle_request"}

(* C12: an enqueue operation called with None, or with a request whose       *)
(* request_id is absent or None, raises ValueError and calls post not once.  *)
C12_EnqueueRejects ==
    (Enqueue /\ (service.arg.is_none \/ ~Present(service.arg.dict, "request_id")))
        => /\ service.ret = "ValueError"
           /\ service.posted = 0

(* the second enqueue of a run is refused for a null request_id after the    *)
(* first was published                                                       *)
C12_Witness ==
    /\ service.op = "queue_lifecycle_request"
    /\ ~service.arg.is_none
    /\ "request_id" \in DOMAIN service.arg.dict /\ service.arg.dict["request_id"] = Null
    /\ service.ret = "ValueError"
    /\ Len(service.posts) = 1

(* the topic an enqueue operation publishes to *)
C13_Topic ==
    IF service.op = "queue_infrastructure_request"
    THEN topic_name("infrastructure") ELSE topic_name("lifecycle")

(* C13: an enqueue operation that returns has called post exactly once, with *)
(* the request as the body, on the request topic of its kind and keyed by    *)
(* the request's request_id; any two messages enqueued for the same          *)
(* request_id have the same key.                                             *)
C13_EnqueuePublishesKeyed ==
    /\ (Enqueue /\ service.ret = "None")
           => /\ service.posted = 1
              /\ service.posts # <<>>
              /\ service.posts[Len(service.posts)]
                     = [topic |-> C13_Topic, body |-> JsonContent_get(service.arg.dict),
                        key |-> service.arg.dict["request_id"]]
    /\ \A i, j \in 1 .. Len(service.posts) :
           /\ service.posts[i].key = JsonContent_read(service.posts[i].body)["request_id"]
           /\ JsonContent_read(service.posts[i].body)["request_id"]
                  = JsonContent_read(service.posts[j].body)["request_id"]
                  => service.posts[i].key = service.posts[j].key

(* a request of the same request_id was enqueued on either topic *)
C13_Witness ==
    /\ service.op = "queue_lifecycle_request" /\ service.ret = "None"
    /\ Len(service.posts) = 2
    /\ service.posts[1].topic = topic_name("infrastructure")
    /\ service.posts[2].topic = topic_name("lifecycle")
    /\ service.posts[1].key = "r1" /\ service.posts[2].key = "r1"

(* a required item of the service's construction is missing, None or empty  *)
C14_ServiceItemMissing ==
    \E k \in ServiceKeySet :
        k \notin DOMAIN service.arg \/ service.arg[k] = Null \/ service.arg[k] = "empty"

(* a required item of the factory's construction is None or empty *)
C14_FactoryItemMissing ==
    \E k \in {"connection_address", "topic_name", "group_id"} :
        service.arg[k] = Null \/ service.arg[k] = ""

(* C14 as stated: constructing the service or a consumer factory with a      *)
(* required item missing, None or empty fails (whatever the exception), so   *)
(* that no object is constructed, and no service first fails when it is      *)
(* used.                                                                     *)
C14_Original ==
    /\ (service.op = "KafkaRequestQueueService" /\ C14_ServiceItemMissing)
           => (service.ret \in {"ValueError", "AttributeError"} /\ ~service.constructed)
    /\ (service.op = "KafkaConsumerFactory" /\ C14_FactoryItemMissing)
           => service.ret = "ValueError"
    /\ service.op = "first use" => service.ret = "None"

(* C21: every handler the service has returned holds a consumer created by   *)
(* its own create_consumer call: as many consumers exist as handlers, no two *)
(* handlers hold the same consumer, and a handler's consumer is closed       *)
(* exactly when close() has been called on that handler.                     *)
C21_ConsumerOwnedByHandler ==
    /\ Len(queues.consumers) = Len(queues.handlers)
    /\ \A i, j \in 1 .. Len(queues.handlers) :
           i # j => queues.handlers[i].consumer # queues.handlers[j].consumer
    /\ \A i \in 1 .. Len(queues.handlers) :
           queues.consumers[queues.handlers[i].consumer] = "closed" <=> i \in queues.closed

(* an infrastructure and a lifecycle handler exist; the first has been       *)
(* closed and the consumer of the second is open                             *)
C21_Witness ==
    /\ Len(queues.handlers) >= 2
    /\ queues.handlers[1].kind = "infrastructure"
    /\ queues.handlers[2].kind = "lifecycle"
    /\ queues.closed = {1}
    /\ queues.consumers[queues.handlers[1].consumer] = "closed"
    /\ queues.consumers[queues.handlers[2].consumer] = "open"

====
